---- MODULE Spec2Model ----
(***************************************************************************)
(* Model of internal/crypto/crypto.go: key derivation (NewIDKey,           *)
(* NewSessionKey, NewSalt, NewRandom), nonce generation (NewNonce) and     *)
(* authenticated encryption (Encrypt, Decrypt).                            *)
(*                                                                         *)
(* The functions of crypto.go are translated statement by statement into   *)
(* operators that return the Go result tuple as a record.  The libraries   *)
(* they call (crypto/rand, chacha20poly1305, argon2, go-password-          *)
(* validator) are modelled by small computable stand-ins that keep the     *)
(* structure of the real algorithms: a stream cipher that XORs a keystream *)
(* derived from key and nonce, a one-time polynomial authenticator over    *)
(* associated data, body and their lengths, a key derivation that is a     *)
(* deterministic function of all its arguments, and an entropy estimate    *)
(* that is length times log2 of the alphabet size.                         *)
(*                                                                         *)
(* A Go slice is a sequence of bytes; a nil slice is the empty sequence.   *)
(* A Go error is a string, "nil" when there is none.  A panic is recorded  *)
(* in the field `panic` of the result ("nil" when the call returned).      *)
(***************************************************************************)
EXTENDS Integers, Sequences, FiniteSets, Bags, TLC

VARIABLES enc, dec, kd

vars == <<enc, dec, kd>>

\* ------------------------------------------------------------ constants
passwordEntropy == 60
saltSize == 32
keySize == 32
nonceSize == 24
\* chacha20poly1305.Overhead: the length of the authentication tag
Overhead == 16

ErrNil == "nil"
ErrInvalidSalt == "invalid salt"
ErrInvalidPassword == "invalid password"
ErrInvalidRandomSize == "cannot generate random array of zero length"
ErrZeroNonce == "got invalid all-zero nonce"
ErrTooShort == "ciphertext is too short"
\* errors of the libraries
ErrRand == "rand: entropy source failed"
ErrBadKeyLength == "chacha20poly1305: bad key length"
ErrOpen == "chacha20poly1305: message authentication failed"

\* ------------------------------------------------------------ bounds
MaxPlainLen == 1
MaxADLen == 1

\* ------------------------------------------------------------ bytes
Zeros(n) == [i \in 1..n |-> 0]

Pow2(j) == CASE j = 0 -> 1 [] j = 1 -> 2 [] j = 2 -> 4 [] j = 3 -> 8
             [] j = 4 -> 16 [] j = 5 -> 32 [] j = 6 -> 64 [] OTHER -> 128

Bit(b, j) == (b \div Pow2(j)) % 2

\* bitwise exclusive or of two bytes
XorByte(a, b) ==
    LET x(j) == IF Bit(a, j) = Bit(b, j) THEN 0 ELSE Pow2(j)
    IN  x(0) + x(1) + x(2) + x(3) + x(4) + x(5) + x(6) + x(7)

\* the bitwise or of all bytes of s: bit j is set iff some byte has it set
OrAll(s) ==
    LET x(j) == IF \E i \in 1..Len(s) : Bit(s[i], j) = 1 THEN Pow2(j) ELSE 0
    IN  x(0) + x(1) + x(2) + x(3) + x(4) + x(5) + x(6) + x(7)

\* the sum of a sequence of positive integers
Sum(s) == BagCardinality(s)

SeqsUpTo(S, n) == UNION {[1..k -> S] : k \in 0..n}

\* Go's copy(dst, src): min(len(dst), len(src)) bytes are copied, dst keeps
\* its length
Copy(dst, src) ==
    [i \in 1..Len(dst) |-> IF i <= Len(src) THEN src[i] ELSE dst[i]]

\* ------------------------------------------------------------ crypto/rand
\* One outcome of rand.Read: it fails, or it fills the whole buffer.  The
\* bytes it delivers are a + (i-1)*step mod 256 at index i.
DrawFail == [fail |-> TRUE, a |-> 0, step |-> 0]
DrawZero == [fail |-> FALSE, a |-> 0, step |-> 0]
DrawA == [fail |-> FALSE, a |-> 17, step |-> 3]
DrawB == [fail |-> FALSE, a |-> 0, step |-> 5]

\* The successive outcomes of rand.Read that a call may consume; a read past
\* the end of the stream fails.
RandStreams ==
    {<<DrawFail>>, <<DrawZero>>, <<DrawZero, DrawA>>, <<DrawA>>, <<DrawB>>}

\* rand.Read(buf) for the k-th read of stream rnd into a buffer of n bytes
RandRead(rnd, k, n) ==
    IF k > Len(rnd) \/ rnd[k].fail
    THEN [err |-> ErrRand, buf |-> Zeros(n)]
    ELSE [err |-> ErrNil,
          buf |-> [i \in 1..n |-> (rnd[k].a + (i - 1) * rnd[k].step) % 256]]

\* -------------------------------------------------- chacha20poly1305 (X)
\* b to the power e, modulo m, by repeated squaring
RECURSIVE PowMod(_, _, _)
PowMod(b, e, m) ==
    IF e = 0 THEN 1 % m
    ELSE LET half == PowMod(b, e \div 2, m)
             sq == (half * half) % m
         IN  IF e % 2 = 1 THEN (sq * b) % m ELSE sq

\* the two moduli of the authenticator's lanes, and the modulus of a digest
PolyModulus(lane) == IF lane = 1 THEN 32749 ELSE 32719

\* Digest of a byte string, the mixing step of the stand-ins: every byte
\* enters with a weight that depends on its place and on the variant v, so that
\* changing one byte, or moving it, changes the digest.
Digest(s, v, modulus) ==
    Sum([i \in 1..Len(s) |->
            (s[i] + 1) * (1 + ((i * i * 31 + i * (7 + 2 * v) + v) % 1021))])
    % modulus

\* the seed of the keystream of the cipher keyed by key and nonce
StreamSeed(key, nonce) == Digest(key \o nonce, 0, PolyModulus(1))

\* keystream byte i
KeyStream(seed, i) == ((seed + 1) * (2 * i + 1) + (seed \div 256)) % 256

\* XOR of the data with the keystream: encryption and decryption alike
StreamXor(key, nonce, data) ==
    LET seed == StreamSeed(key, nonce)
    IN  [i \in 1..Len(data) |->
            LET d == data[i]
                k == KeyStream(seed, i)
            IN  XorByte(d, k)]

\* the one-time authenticator key (r, s) of a lane, derived from key and nonce
PolyKey(key, nonce, lane) ==
    LET p == PolyModulus(lane)
    IN  [r |-> 1 + (Digest(key \o nonce, lane, p) % (p - 1)),
         s |-> Digest(nonce \o key, 2 + lane, p)]

\* polynomial evaluation of msg at r, every byte carrying a high bit: the sum
\* of (msg[i] + 256) * r^(n + 1 - i), which is what h := (h + byte + 256) * r
\* over the bytes gives from h = 0
PolyEval(msg, r, p) ==
    Sum([i \in 1..Len(msg) |->
            (msg[i] + 256) * PowMod(r, Len(msg) + 1 - i, p)]) % p

\* the 16-byte tag over associated data, body and both lengths
Tag(key, nonce, ad, body) ==
    LET msg == ad \o body \o <<Len(ad), Len(body)>>
        v(lane) == LET k == PolyKey(key, nonce, lane)
                       p == PolyModulus(lane)
                   IN  (PolyEval(msg, k.r, p) + k.s) % p
        v1 == v(1)
        v2 == v(2)
    IN  <<v1 % 256, v1 \div 256, v2 % 256, v2 \div 256>>
        \o [i \in 1..(Overhead - 4) |-> (v1 + i * v2) % 256]

\* chacha20poly1305.NewX: the error it returns for this key
NewX(key) == IF Len(key) # keySize THEN ErrBadKeyLength ELSE ErrNil

\* aead.Seal(dst, nonce, plaintext, additionalData): appends body and tag to dst
Seal(key, dst, nonce, plaintext, ad) ==
    LET body == StreamXor(key, nonce, plaintext)
    IN  dst \o body \o Tag(key, nonce, ad, body)

\* aead.Open(nil, nonce, ciphertext, additionalData)
Open(key, nonce, ciphertext, ad) ==
    IF Len(ciphertext) < Overhead
    THEN [out |-> <<>>, err |-> ErrOpen]
    ELSE LET n == Len(ciphertext) - Overhead
             body == SubSeq(ciphertext, 1, n)
             tag == SubSeq(ciphertext, n + 1, Len(ciphertext))
         IN  IF tag # Tag(key, nonce, ad, body)
             THEN [out |-> <<>>, err |-> ErrOpen]
             ELSE [out |-> StreamXor(key, nonce, body), err |-> ErrNil]

\* ------------------------------------------------------------ *[]byte
\* additionalData *[]byte: a nil pointer, or a pointer to a slice
NilAD == [nil |-> TRUE, data |-> <<>>]
SomeAD(b) == [nil |-> FALSE, data |-> b]

\* ------------------------------------------------------------ faulty variants
\* Beside each function stands a variant with one plausible slip; the
\* properties at the end are formulas that tell the variant from the code.
\* NewNonce without its test of the accumulated or: an all-zero nonce is
\* returned like any other
NewNonce_NoZeroCheck(ciphertextLen, overheadLen, rnd) ==
    LET rd == RandRead(rnd, 1, nonceSize)
    IN  [nonce |-> rd.buf, cap |-> nonceSize + ciphertextLen + overheadLen,
         err |-> rd.err, reads |-> 1]

\* ------------------------------------------------------------ NewNonce
NewNonce(ciphertextLen, overheadLen, rnd) ==
    LET rd == RandRead(rnd, 1, nonceSize)
        nonce == rd.buf
        cap == nonceSize + ciphertextLen + overheadLen
        total == OrAll(nonce)
    IN  IF rd.err # ErrNil
        THEN [nonce |-> nonce, cap |-> cap, err |-> rd.err, reads |-> 1]
        ELSE IF total > 0
        THEN [nonce |-> nonce, cap |-> cap, err |-> ErrNil, reads |-> 1]
        ELSE [nonce |-> nonce, cap |-> cap, err |-> ErrZeroNonce, reads |-> 1]

\* Encrypt sealing into a fresh buffer instead of appending to the nonce
\* (Seal(nil, nonce, ...)): the output lacks the nonce prefix
Encrypt_NoPrefix(key, plaintext, additionalData, rnd) ==
    LET aeadErr == NewX(key.Data)
        nn == NewNonce(Len(plaintext), Overhead, rnd)
        NoNonce == [nonce |-> <<>>, cap |-> 0, err |-> ErrNil, reads |-> 0]
    IN  IF aeadErr # ErrNil
        THEN [encrypted |-> <<>>, err |-> aeadErr, nn |-> NoNonce]
        ELSE IF nn.err # ErrNil
        THEN [encrypted |-> <<>>, err |-> nn.err, nn |-> nn]
        ELSE [encrypted |-> Seal(key.Data, <<>>, nn.nonce, plaintext,
                                 additionalData.data),
              err |-> ErrNil, nn |-> nn]

\* Encrypt that seals without the associated data it was given
Encrypt_DropsAD(key, plaintext, additionalData, rnd) ==
    LET aeadErr == NewX(key.Data)
        nn == NewNonce(Len(plaintext), Overhead, rnd)
        NoNonce == [nonce |-> <<>>, cap |-> 0, err |-> ErrNil, reads |-> 0]
    IN  IF aeadErr # ErrNil
        THEN [encrypted |-> <<>>, err |-> aeadErr, nn |-> NoNonce]
        ELSE IF nn.err # ErrNil
        THEN [encrypted |-> <<>>, err |-> nn.err, nn |-> nn]
        ELSE [encrypted |-> Seal(key.Data, nn.nonce, nn.nonce, plaintext, <<>>),
              err |-> ErrNil, nn |-> nn]

\* ------------------------------------------------------------ Encrypt
Encrypt(key, plaintext, additionalData, rnd) ==
    LET aeadErr == NewX(key.Data)
        nn == NewNonce(Len(plaintext), Overhead, rnd)
        NoNonce == [nonce |-> <<>>, cap |-> 0, err |-> ErrNil, reads |-> 0]
    IN  IF aeadErr # ErrNil
        THEN [encrypted |-> <<>>, err |-> aeadErr, nn |-> NoNonce]
        ELSE IF nn.err # ErrNil
        THEN [encrypted |-> <<>>, err |-> nn.err, nn |-> nn]
        ELSE IF additionalData.nil
        THEN [encrypted |-> Seal(key.Data, nn.nonce, nn.nonce, plaintext, <<>>),
              err |-> ErrNil, nn |-> nn]
        ELSE [encrypted |-> Seal(key.Data, nn.nonce, nn.nonce, plaintext,
                                 additionalData.data),
              err |-> ErrNil, nn |-> nn]

\* Decrypt that hands back the bytes it deciphered although the tag did not
\* verify
Decrypt_BestEffort(key, encrypted, additionalData) ==
    LET aeadErr == NewX(key.Data)
        nonce == SubSeq(encrypted, 1, nonceSize)
        ciphertext == SubSeq(encrypted, nonceSize + 1, Len(encrypted))
        opened == Open(key.Data, nonce, ciphertext, additionalData.data)
        body == SubSeq(ciphertext, 1, Len(ciphertext) - Overhead)
    IN  IF aeadErr # ErrNil
        THEN [decrypted |-> <<>>, err |-> aeadErr,
              nonce |-> <<>>, ciphertext |-> <<>>]
        ELSE IF Len(encrypted) < nonceSize
        THEN [decrypted |-> <<>>, err |-> ErrTooShort,
              nonce |-> <<>>, ciphertext |-> <<>>]
        ELSE IF opened.err # ErrNil
        THEN [decrypted |-> StreamXor(key.Data, nonce, body), err |-> opened.err,
              nonce |-> nonce, ciphertext |-> ciphertext]
        ELSE [decrypted |-> opened.out, err |-> ErrNil,
              nonce |-> nonce, ciphertext |-> ciphertext]

\* Decrypt that opens without the associated data it was given
Decrypt_IgnoresAD(key, encrypted, additionalData) ==
    LET aeadErr == NewX(key.Data)
        nonce == SubSeq(encrypted, 1, nonceSize)
        ciphertext == SubSeq(encrypted, nonceSize + 1, Len(encrypted))
        opened == Open(key.Data, nonce, ciphertext, <<>>)
    IN  IF aeadErr # ErrNil
        THEN [decrypted |-> <<>>, err |-> aeadErr,
              nonce |-> <<>>, ciphertext |-> <<>>]
        ELSE IF Len(encrypted) < nonceSize
        THEN [decrypted |-> <<>>, err |-> ErrTooShort,
              nonce |-> <<>>, ciphertext |-> <<>>]
        ELSE [decrypted |-> opened.out, err |-> opened.err,
              nonce |-> nonce, ciphertext |-> ciphertext]

\* ------------------------------------------------------------ Decrypt
Decrypt(key, encrypted, additionalData) ==
    LET aeadErr == NewX(key.Data)
        nonce == SubSeq(encrypted, 1, nonceSize)
        ciphertext == SubSeq(encrypted, nonceSize + 1, Len(encrypted))
        opened == IF additionalData.nil
                  THEN Open(key.Data, nonce, ciphertext, <<>>)
                  ELSE Open(key.Data, nonce, ciphertext, additionalData.data)
    IN  IF aeadErr # ErrNil
        THEN [decrypted |-> <<>>, err |-> aeadErr,
              nonce |-> <<>>, ciphertext |-> <<>>]
        ELSE IF Len(encrypted) < nonceSize
        THEN [decrypted |-> <<>>, err |-> ErrTooShort,
              nonce |-> <<>>, ciphertext |-> <<>>]
        ELSE [decrypted |-> opened.out, err |-> opened.err,
              nonce |-> nonce, ciphertext |-> ciphertext]

\* ------------------------------------------------- go-password-validator
\* A password as the estimator sees it: the size of the alphabet its characters
\* are drawn from (the sum of the sizes of the character classes it uses) and
\* the number of characters that count.
Password(name, base, length) == [name |-> name, base |-> base, length |-> length]

\* floor(100 * log2(base)) for the alphabet sizes of the passwords modelled;
\* log2(32) is exactly 5, and logX answers 0 for an empty alphabet
Log2Centi(base) ==
    CASE base = 0 -> 0 [] base = 10 -> 332 [] base = 26 -> 470
      [] base = 32 -> 500 [] base = 67 -> 606

\* getEntropy: length * log2(base), here in hundredths of a bit
Entropy(password) == password.length * Log2Centi(password.base)

\* passwordvalidator.Validate(password, minEntropy): nil iff the entropy is at
\* least minEntropy bits
Validate(password, minEntropy) ==
    IF Entropy(password) >= 100 * minEntropy THEN ErrNil
    ELSE "insecure password, try including more special characters"

\* []byte(password), as far as the key derivation stand-in reads it
PasswordBytes(password) == <<password.base, password.length>>

\* ------------------------------------------------------------ argon2
\* Go's uint8(x) and uint32(x) of an int x; the model's values of T, M and L
\* lie in 0 .. 2^31 - 1, where uint32 changes nothing
U8(x) == x % 256
U32(x) == x

\* argon2.IDKey(password, salt, time, memory, threads, keyLen): panics when
\* time < 1 or threads < 1, else keyLen bytes that are a function of all six
IDKey(password, salt, time, memory, threads, keyLen) ==
    IF time < 1 THEN [panic |-> "argon2: number of rounds too small", k |-> <<>>]
    ELSE IF threads < 1
    THEN [panic |-> "argon2: parallelism degree too low", k |-> <<>>]
    ELSE LET h == Digest(password \o <<time % 256, memory % 256, threads>>
                         \o salt, 5, PolyModulus(1))
         IN  [panic |-> ErrNil,
              k |-> [i \in 1..keyLen |-> ((h + 1) * (2 * i + 1) + h \div 256) % 256]]

\* ------------------------------------------------------------ *Key
NilKey == [nil |-> TRUE, Data |-> <<>>]
SomeKey(data) == [nil |-> FALSE, Data |-> data]

\* NewIDKey checking the password before the salt
NewIDKey_PasswordFirst(params, password, salt) ==
    LET perr == Validate(password, passwordEntropy)
        k == IDKey(PasswordBytes(password), salt, U32(params.T), U32(params.M),
                   U8(params.P), U32(params.L))
    IN  IF perr # ErrNil
        THEN [key |-> NilKey, err |-> ErrInvalidPassword, panic |-> ErrNil,
              argonRuns |-> 0]
        ELSE IF Len(salt) # saltSize
        THEN [key |-> NilKey, err |-> ErrInvalidSalt, panic |-> ErrNil,
              argonRuns |-> 0]
        ELSE IF k.panic # ErrNil
        THEN [key |-> NilKey, err |-> ErrNil, panic |-> k.panic, argonRuns |-> 1]
        ELSE [key |-> SomeKey(k.k), err |-> ErrNil, panic |-> ErrNil,
              argonRuns |-> 1]

\* NewIDKey that also rejects a salt all of whose bytes are zero
NewIDKey_RejectsZeroSalt(params, password, salt) ==
    LET perr == Validate(password, passwordEntropy)
        k == IDKey(PasswordBytes(password), salt, U32(params.T), U32(params.M),
                   U8(params.P), U32(params.L))
    IN  IF Len(salt) # saltSize \/ OrAll(salt) = 0
        THEN [key |-> NilKey, err |-> ErrInvalidSalt, panic |-> ErrNil,
              argonRuns |-> 0]
        ELSE IF perr # ErrNil
        THEN [key |-> NilKey, err |-> ErrInvalidPassword, panic |-> ErrNil,
              argonRuns |-> 0]
        ELSE IF k.panic # ErrNil
        THEN [key |-> NilKey, err |-> ErrNil, panic |-> k.panic, argonRuns |-> 1]
        ELSE [key |-> SomeKey(k.k), err |-> ErrNil, panic |-> ErrNil,
              argonRuns |-> 1]

\* ------------------------------------------------------------ NewIDKey
NewIDKey(params, password, salt) ==
    LET perr == Validate(password, passwordEntropy)
        k == IDKey(PasswordBytes(password), salt, U32(params.T), U32(params.M),
                   U8(params.P), U32(params.L))
    IN  IF Len(salt) # saltSize
        THEN [key |-> NilKey, err |-> ErrInvalidSalt, panic |-> ErrNil,
              argonRuns |-> 0]
        ELSE IF perr # ErrNil
        THEN [key |-> NilKey, err |-> ErrInvalidPassword, panic |-> ErrNil,
              argonRuns |-> 0]
        ELSE IF k.panic # ErrNil
        THEN [key |-> NilKey, err |-> ErrNil, panic |-> k.panic, argonRuns |-> 1]
        ELSE [key |-> SomeKey(k.k), err |-> ErrNil, panic |-> ErrNil,
              argonRuns |-> 1]

\* ------------------------------------------------------------ validateSaltLen
\* the panic it raises, "nil" when it returns
validateSaltLen(salt) == IF Len(salt) # saltSize THEN ErrInvalidSalt ELSE ErrNil

\* ------------------------------------------------------------ NewRandom
NewRandom(size, rnd) ==
    LET rd == RandRead(rnd, 1, size)
    IN  IF size = 0 THEN [random |-> <<>>, err |-> ErrInvalidRandomSize]
        ELSE [random |-> rd.buf, err |-> rd.err]

\* ------------------------------------------------------------ NewSessionKey
NewSessionKey(salt, rnd) ==
    LET r == NewRandom(keySize, rnd)
        \* key = &Key{}: Data is the nil slice
        data == <<>>
    IN  IF validateSaltLen(salt) # ErrNil
        THEN [key |-> NilKey, err |-> ErrNil, panic |-> validateSaltLen(salt)]
        ELSE IF r.err # ErrNil
        THEN [key |-> SomeKey(data), err |-> r.err, panic |-> ErrNil]
        ELSE [key |-> SomeKey(Copy(data, r.random)), err |-> ErrNil,
              panic |-> ErrNil]

\* ------------------------------------------------------------ NewSalt
NewSalt(rnd) ==
    LET r == NewRandom(saltSize, rnd)
    IN  IF r.err # ErrNil
        THEN [salt |-> <<>>, panic |-> ErrInvalidSalt]
        ELSE [salt |-> r.random, panic |-> validateSaltLen(r.random)]

\* ------------------------------------------------------------ inputs
KeyOf(a) == [Data |-> [i \in 1..keySize |-> (a + 7 * i) % 256]]
\* two 32-byte keys and the key with no bytes (Key{}, whose Data is nil)
Keys == {KeyOf(1), KeyOf(90), [Data |-> <<>>]}

PlainBytes == {0, 255}
HelloWorld == <<104, 101, 108, 108, 111, 32, 119, 111, 114, 108, 100>>
Plaintexts == SeqsUpTo(PlainBytes, MaxPlainLen) \cup {HelloWorld}

ADBytes == {1, 2}
ADValues == {NilAD} \cup {SomeAD(b) : b \in SeqsUpTo(ADBytes, MaxADLen)}

FlipBits == {0, 7}
FlipBit(b, j) == IF Bit(b, j) = 1 THEN b - Pow2(j) ELSE b + Pow2(j)

\* what a caller may hand to Decrypt in place of the ciphertext c: c with one
\* bit flipped, c cut short, c extended
Tampered(c) ==
    {[c EXCEPT ![i] = FlipBit(@, j)] : i \in 1..Len(c), j \in FlipBits}
    \cup {SubSeq(c, 1, n) :
            n \in {0, nonceSize - 1, nonceSize, nonceSize + Overhead - 1,
                   Len(c) - 1}}
    \cup {c \o <<0>>}

\* inputs to Decrypt that never were a ciphertext
Junk == {<<>>, Zeros(nonceSize - 1), Zeros(nonceSize), Zeros(nonceSize + Overhead)}

Attempts(e) ==
    IF e.op = "Encrypt" /\ e.err = ErrNil
    THEN {[key |-> k, encrypted |-> e.encrypted, ad |-> a] :
            k \in Keys, a \in ADValues}
         \cup {[key |-> e.key, encrypted |-> t, ad |-> e.ad] :
                 t \in Tampered(e.encrypted)}
    ELSE {[key |-> k, encrypted |-> t, ad |-> NilAD] : k \in Keys, t \in Junk}

\* inputs of the key derivation
DefaultParams == [T |-> 1, M |-> 65536, P |-> 4, L |-> keySize]
ParamsSet ==
    {DefaultParams,
     [T |-> 3, M |-> 8, P |-> 1, L |-> keySize],
     [T |-> 0, M |-> 65536, P |-> 4, L |-> keySize],
     [T |-> 1, M |-> 65536, P |-> 256, L |-> keySize],
     [T |-> 1, M |-> 65536, P |-> 4, L |-> 16]}

Passwords ==
    {Password("", 0, 0),
     Password("password", 26, 8),
     Password("314159265358979323", 10, 18),
     Password("0123<=>?4567", 32, 12),
     Password("Tr0ub4dor&3xample!Long", 67, 22)}

SaltOf(n) == [i \in 1..n |-> (200 + 3 * i) % 256]
Salts == {<<>>, Zeros(saltSize - 1), Zeros(saltSize), SaltOf(saltSize),
          SaltOf(saltSize + 1), SaltOf(16)}

RandomSizes == {0, nonceSize, keySize}

\* ------------------------------------------------------------ state
NoEnc == [op |-> "none", key |-> [Data |-> <<>>], plaintext |-> <<>>,
          ad |-> NilAD, rnd |-> <<>>, encrypted |-> <<>>, err |-> ErrNil,
          nn |-> [nonce |-> <<>>, cap |-> 0, err |-> ErrNil, reads |-> 0]]

NoDec == [op |-> "none", key |-> [Data |-> <<>>], encrypted |-> <<>>,
          ad |-> NilAD, decrypted |-> <<>>, err |-> ErrNil,
          nonce |-> <<>>, ciphertext |-> <<>>]

NoKd == [op |-> "none"]

Init == enc = NoEnc /\ dec = NoDec /\ kd = NoKd

\* The functions keep nothing between calls, so a behaviour follows one
\* ciphertext: Encrypt is called once, and Decrypt once on what it returned
\* (or on bytes picked before there was a ciphertext).
\*
\* A call of Encrypt; the ciphertext in hand is now its result, and a record
\* of a Decrypt made before there was a ciphertext is dropped.
DoEncrypt ==
    /\ enc.op = "none"
    /\ \E key \in Keys, plaintext \in Plaintexts, ad \in ADValues,
       rnd \in RandStreams :
        LET r == Encrypt(key, plaintext, ad, rnd)
        IN  /\ enc' = [op |-> "Encrypt", key |-> key, plaintext |-> plaintext,
                       ad |-> ad, rnd |-> rnd, encrypted |-> r.encrypted,
                       err |-> r.err, nn |-> r.nn]
            /\ dec' = NoDec
            /\ UNCHANGED kd

\* A call of Decrypt on the ciphertext in hand, on an altered copy of it, or
\* on bytes that never were a ciphertext.
DoDecrypt ==
    /\ dec.op = "none"
    /\ \E att \in Attempts(enc) :
        LET r == Decrypt(att.key, att.encrypted, att.ad)
        IN  /\ dec' = [op |-> "Decrypt", key |-> att.key,
                       encrypted |-> att.encrypted, ad |-> att.ad,
                       decrypted |-> r.decrypted, err |-> r.err,
                       nonce |-> r.nonce, ciphertext |-> r.ciphertext]
            /\ UNCHANGED <<enc, kd>>

\* A call of NewIDKey
DoNewIDKey ==
    \E params \in ParamsSet, password \in Passwords, salt \in Salts :
        LET r == NewIDKey(params, password, salt)
        IN  /\ kd' = [op |-> "NewIDKey", params |-> params,
                      password |-> password, salt |-> salt, key |-> r.key,
                      err |-> r.err, panic |-> r.panic,
                      argonRuns |-> r.argonRuns]
            /\ UNCHANGED <<enc, dec>>

\* A call of NewSessionKey
DoNewSessionKey ==
    \E salt \in Salts, rnd \in RandStreams :
        LET r == NewSessionKey(salt, rnd)
        IN  /\ kd' = [op |-> "NewSessionKey", salt |-> salt, rnd |-> rnd,
                      key |-> r.key, err |-> r.err, panic |-> r.panic]
            /\ UNCHANGED <<enc, dec>>

\* A call of NewSalt
DoNewSalt ==
    \E rnd \in RandStreams :
        LET r == NewSalt(rnd)
        IN  /\ kd' = [op |-> "NewSalt", rnd |-> rnd, salt |-> r.salt,
                      panic |-> r.panic]
            /\ UNCHANGED <<enc, dec>>

\* A call of NewRandom
DoNewRandom ==
    \E size \in RandomSizes, rnd \in RandStreams :
        LET r == NewRandom(size, rnd)
        IN  /\ kd' = [op |-> "NewRandom", size |-> size, rnd |-> rnd,
                      random |-> r.random, err |-> r.err]
            /\ UNCHANGED <<enc, dec>>

Next == DoEncrypt \/ DoDecrypt

\* the cipher: one ciphertext is made and one attempt is made to open it
Spec == Init /\ [][Next]_vars

NextKeys == DoNewIDKey \/ DoNewSessionKey \/ DoNewSalt \/ DoNewRandom

\* the key derivation: any sequence of calls
SpecKeys == Init /\ [][NextKeys]_vars

\* ============================================================ properties
\* Encrypt returned a ciphertext
Encrypted == enc.op = "Encrypt" /\ enc.err = ErrNil

\* Decrypt was called on exactly that ciphertext, with the key that made it
DecryptedSame ==
    /\ Encrypted
    /\ dec.op = "Decrypt"
    /\ dec.key = enc.key
    /\ dec.encrypted = enc.encrypted

\* C1 -- Round trip: whenever Encrypt(key, plaintext, ad) succeeds (the key
\* then has 32 bytes), Decrypt(key, thatOutput, ad) succeeds and returns bytes
\* equal to plaintext; ad may be absent, present and empty, or non-empty, and
\* plaintext may be empty.
C1_RoundTrip ==
    (DecryptedSame /\ dec.ad = enc.ad)
        => /\ Len(enc.key.Data) = keySize
           /\ dec.err = ErrNil
           /\ dec.decrypted = enc.plaintext

C1_Witness ==
    /\ DecryptedSame
    /\ dec.ad = enc.ad
    /\ enc.ad = SomeAD(<<1>>)
    /\ enc.plaintext = HelloWorld
    /\ dec.decrypted = HelloWorld

C3_FailClosed ==
    dec.op = "Decrypt"
        => /\ ~DecryptedSame => (dec.err # ErrNil /\ dec.decrypted = <<>>)
           /\ (Len(dec.key.Data) = keySize /\ Len(dec.encrypted) < nonceSize)
                => dec.err = ErrTooShort
           /\ dec.err # ErrNil => dec.decrypted = <<>>

C3_Witness ==
    /\ Encrypted
    /\ enc.plaintext = HelloWorld
    /\ dec.op = "Decrypt"
    /\ dec.key = enc.key
    /\ dec.ad = enc.ad
    /\ Len(dec.encrypted) = Len(enc.encrypted)
    /\ dec.encrypted[nonceSize + 3] # enc.encrypted[nonceSize + 3]
    /\ dec.err = ErrOpen
    /\ dec.decrypted = <<>>

\* C7 -- Layout: a successful Encrypt returns nonce || sealed, of length
\* 24 + len(plaintext) + 16 (51 for "hello world"), whose first 24 bytes are
\* the nonce NewNonce gave and whose rest is what Seal makes of the plaintext
\* under that nonce; Decrypt splits its input at byte 24 into nonce and sealed
\* body.
C7_Layout ==
    /\ Encrypted
        => /\ Len(enc.encrypted) = nonceSize + Len(enc.plaintext) + Overhead
           /\ SubSeq(enc.encrypted, 1, nonceSize) = enc.nn.nonce
           /\ SubSeq(enc.encrypted, nonceSize + 1, Len(enc.encrypted))
                = Seal(enc.key.Data, <<>>, enc.nn.nonce, enc.plaintext,
                       enc.ad.data)
           /\ enc.plaintext = HelloWorld => Len(enc.encrypted) = 51
    /\ (/\ dec.op = "Decrypt"
        /\ Len(dec.key.Data) = keySize
        /\ Len(dec.encrypted) >= nonceSize)
        => /\ dec.nonce = SubSeq(dec.encrypted, 1, nonceSize)
           /\ dec.ciphertext
                = SubSeq(dec.encrypted, nonceSize + 1, Len(dec.encrypted))
           /\ dec.nonce \o dec.ciphertext = dec.encrypted

C7_Witness ==
    /\ DecryptedSame
    /\ enc.plaintext = HelloWorld
    /\ Len(enc.encrypted) = 51
    /\ Len(dec.nonce) = 24
    /\ Len(dec.ciphertext) = 27

\* C9 -- An all-zero nonce is never used: when the random source yields 24
\* zero bytes, NewNonce returns an error after that one read, and Encrypt
\* returns that error and no ciphertext; no successful Encrypt output begins
\* with 24 zero bytes.
C9_NoZeroNonce ==
    /\ (/\ enc.op = "Encrypt"
        /\ Len(enc.key.Data) = keySize
        /\ RandRead(enc.rnd, 1, nonceSize)
             = [err |-> ErrNil, buf |-> Zeros(nonceSize)])
        => /\ enc.nn.err = ErrZeroNonce
           /\ enc.nn.reads = 1
           /\ enc.err = ErrZeroNonce
           /\ enc.encrypted = <<>>
    /\ Encrypted => SubSeq(enc.encrypted, 1, nonceSize) # Zeros(nonceSize)

C9_Witness ==
    /\ enc.op = "Encrypt"
    /\ enc.rnd = <<DrawZero, DrawA>>
    /\ Len(enc.key.Data) = keySize
    /\ enc.err = ErrZeroNonce

\* what the data model of Params asks of its fields
ValidParams(params) ==
    params.T >= 1 /\ params.M >= 1 /\ params.P >= 1 /\ params.L = keySize

\* C4 (as claimed) -- NewSessionKey with a salt of 32 bytes and a working
\* random source returns a Key whose data is the 32 bytes that NewRandom gave.
C4_SessionKey ==
    (/\ kd.op = "NewSessionKey"
     /\ Len(kd.salt) = saltSize
     /\ NewRandom(keySize, kd.rnd).err = ErrNil)
        => /\ kd.err = ErrNil
           /\ ~kd.key.nil
           /\ Len(kd.key.Data) = keySize
           /\ kd.key.Data = NewRandom(keySize, kd.rnd).random

\* C5 -- NewIDKey with a salt whose length is not 32 fails with the
\* invalid-salt error and returns no key, for every password and every Params:
\* the salt error is reported for a weak password too, and the derivation
\* function is not run.
C5_SaltLength ==
    (kd.op = "NewIDKey" /\ Len(kd.salt) # saltSize)
        => /\ kd.err = ErrInvalidSalt
           /\ kd.key.nil
           /\ kd.panic = ErrNil
           /\ kd.argonRuns = 0

C5_Witness ==
    /\ kd.op = "NewIDKey"
    /\ Len(kd.salt) = saltSize - 1
    /\ Validate(kd.password, passwordEntropy) # ErrNil
    /\ kd.params.T = 0
    /\ kd.err = ErrInvalidSalt

\* C6 (as claimed) -- NewIDKey with a 32-byte salt (and Params that meet the
\* data model) returns a key if and only if the password's estimated entropy
\* is at least 60 bits: below, the invalid-password error and a nil key; at or
\* above, a non-nil key and no error.
C6_PasswordThreshold ==
    (/\ kd.op = "NewIDKey"
     /\ Len(kd.salt) = saltSize
     /\ ValidParams(kd.params))
        => IF Entropy(kd.password) < 100 * passwordEntropy
           THEN kd.err = ErrInvalidPassword /\ kd.key.nil
           ELSE kd.err = ErrNil /\ kd.panic = ErrNil /\ ~kd.key.nil

\* C8 (as claimed) -- NewSessionKey with a salt whose length is not 32 returns
\* the invalid-salt error as an error value, and no key.
C8_SessionKeySaltError ==
    (kd.op = "NewSessionKey" /\ Len(kd.salt) # saltSize)
        => /\ kd.err = ErrInvalidSalt
           /\ kd.panic = ErrNil
           /\ kd.key.nil

\* C10 (as claimed) -- a salt of 32 zero bytes is invalid: NewIDKey rejects it
\* with the invalid-salt error.
C10_Original ==
    (kd.op = "NewIDKey" /\ kd.salt = Zeros(saltSize))
        => kd.err = ErrInvalidSalt /\ kd.key.nil

\* C10 (amended) -- a salt of 32 zero bytes has the valid length and is
\* accepted: NewIDKey never answers it with the invalid-salt error; the
\* password alone decides, a weak one giving the invalid-password error and no
\* key, a strong one no error and a run of the derivation function on that
\* salt.
C10_ZeroSaltAccepted ==
    (kd.op = "NewIDKey" /\ kd.salt = Zeros(saltSize))
        => /\ kd.err # ErrInvalidSalt
           /\ IF Entropy(kd.password) < 100 * passwordEntropy
              THEN kd.err = ErrInvalidPassword /\ kd.key.nil /\ kd.argonRuns = 0
              ELSE kd.err = ErrNil /\ kd.argonRuns = 1

C10_Witness ==
    /\ kd.op = "NewIDKey"
    /\ kd.salt = Zeros(saltSize)
    /\ kd.params = DefaultParams
    /\ ~kd.key.nil
    /\ Len(kd.key.Data) = keySize
    /\ kd.err = ErrNil

====
